---- MODULE Spec2Model ----
(***************************************************************************)
(* Model of Tools/ExcelExporter/excel_to_unity.py: the export of workbooks *)
(* to serialized documents and record types (parse_excel_file, the type    *)
(* inference, the value coercion and the table naming of main), and of the *)
(* ExcelDataManager class the script generates (Initialize, GetIdValue and *)
(* the accessors).                                                         *)
(*                                                                         *)
(* Text is a sequence of one-character strings, so that str.strip, lower,  *)
(* int(), float(), to_pascal_case and the f-string concatenations are      *)
(* computed character by character as Python computes them.                *)
(*                                                                         *)
(* A cell value is a record [k, v]:                                        *)
(*   k = "none"                      None                                  *)
(*   k = "bool",  v \in BOOLEAN      a Python bool                         *)
(*   k = "int",   v \in Int          a Python int                          *)
(*   k = "float", v = <<m, d>>       the float m / 10^d (d >= 0, m not a    *)
(*                                   multiple of 10 unless d = 0);          *)
(*                <<0,-1>> nan, <<1,-1>> inf, <<-1,-1>> -inf               *)
(*   k = "str",   v \in Seq(Char)    a Python str                          *)
(***************************************************************************)
EXTENDS Integers, Sequences, FiniteSets, TLC

VARIABLES
    files,          \* DATATABLES_DIR: stem |-> workbook (the input, never written)
    xlsx_files,     \* main: the files of the glob still to be processed, in order
    pc,             \* main: "loop", "manager" or "done"
    all_tables,     \* main: all_tables, an ordered dict table_key -> table_info
    json_files,     \* UNITY_RESOURCES_DIR: ordered dict table_key -> document
    class_files,    \* UNITY_CODE_DIR: ordered dict class name -> record type
    manager_file,   \* UNITY_CODE_DIR/ExcelDataManager.cs: the table keys it loads
    written,        \* the "sheet -> table_key" diagnostics main printed, in order
    run,            \* number of the current run of main over the same input
    prev_json,      \* UNITY_RESOURCES_DIR as the previous run of main left it
    resources,      \* Resources/ExcelImporter at run time: table_key |-> asset
    isInitialized,  \* ExcelDataManager._isInitialized
    dataList,       \* ExcelDataManager._<table>List, per table key
    dataDict,       \* ExcelDataManager._<table>Dict, per table key
    ret,            \* the last accessor call and what it returned
    calls,          \* number of calls made on ExcelDataManager
    initializeReturned  \* history: a call of Initialize by the game has returned

vars == <<files, xlsx_files, pc, all_tables, json_files, class_files, manager_file,
          written, run, prev_json, resources, isInitialized, dataList, dataDict, ret,
          calls, initializeReturned>>

exportVars == <<files, xlsx_files, pc, all_tables, json_files, class_files,
                manager_file, written, run, prev_json>>

managerVars == <<resources, isInitialized, dataList, dataDict, ret, calls,
                 initializeReturned>>

-----------------------------------------------------------------------------
(* Bounds *)

\* the sheets of a workbook, at most
MaxSheets == 2

\* the data rows of the sheet whose Hp column takes every value, at most
MaxRows == 3

\* the runs of main over one input, at most
MaxRuns == 2

\* the calls made on ExcelDataManager, at most
MaxCalls == 2

\* the data rows of the sheet whose Id column takes every value, at most
MaxItems == 3

\* the most data rows of a sheet whose headers are drawn
MaxHeaderRows == 2

\* the most data rows of a sheet with two id columns
MaxIdRows == 2

-----------------------------------------------------------------------------
(* Characters and text *)

LowerLetters == <<"a","b","c","d","e","f","g","h","i","j","k","l","m",
                  "n","o","p","q","r","s","t","u","v","w","x","y","z">>

UpperLetters == <<"A","B","C","D","E","F","G","H","I","J","K","L","M",
                  "N","O","P","Q","R","S","T","U","V","W","X","Y","Z">>

DigitChars == <<"0","1","2","3","4","5","6","7","8","9">>

IndexIn(c, s) == IF \E i \in 1..Len(s) : s[i] = c
                 THEN CHOOSE i \in 1..Len(s) : s[i] = c
                 ELSE 0

IsDigit(c) == IndexIn(c, DigitChars) > 0

DigitVal(c) == IndexIn(c, DigitChars) - 1

\* str.isalnum on one character
IsAlnum(c) == IsDigit(c) \/ IndexIn(c, LowerLetters) > 0 \/ IndexIn(c, UpperLetters) > 0

IsSpace(c) == c = " "

LowerChar(c) == IF IndexIn(c, UpperLetters) > 0
                THEN LowerLetters[IndexIn(c, UpperLetters)] ELSE c

UpperChar(c) == IF IndexIn(c, LowerLetters) > 0
                THEN UpperLetters[IndexIn(c, LowerLetters)] ELSE c

\* str.lower
RECURSIVE Lower(_)
Lower(s) == IF s = <<>> THEN <<>> ELSE <<LowerChar(Head(s))>> \o Lower(Tail(s))

\* str.capitalize: the first character upper-cased, the rest lower-cased
Capitalize(s) == IF s = <<>> THEN <<>> ELSE <<UpperChar(Head(s))>> \o Lower(Tail(s))

RECURSIVE LStrip(_)
LStrip(s) == IF s # <<>> /\ IsSpace(Head(s)) THEN LStrip(Tail(s)) ELSE s

RECURSIVE RStrip(_)
RStrip(s) == IF s # <<>> /\ IsSpace(s[Len(s)])
             THEN RStrip(SubSeq(s, 1, Len(s) - 1)) ELSE s

\* str.strip
Strip(s) == RStrip(LStrip(s))

\* "." in s
HasDot(s) == \E i \in 1..Len(s) : s[i] = "."

RECURSIVE NatDigits(_)
NatDigits(n) == IF n < 10 THEN <<DigitChars[n + 1]>>
                ELSE NatDigits(n \div 10) \o <<DigitChars[(n % 10) + 1]>>

\* str(n) of a Python int
IntStr(n) == IF n < 0 THEN <<"-">> \o NatDigits(0 - n) ELSE NatDigits(n)

RECURSIVE Pow10(_)
Pow10(d) == IF d = 0 THEN 1 ELSE 10 * Pow10(d - 1)

RECURSIVE PadZeros(_, _)
PadZeros(s, n) == IF Len(s) >= n THEN s ELSE PadZeros(<<"0">> \o s, n)

Abs(n) == IF n < 0 THEN 0 - n ELSE n

-----------------------------------------------------------------------------
(* Cell values and Python's str(), int() and float() *)

None == [k |-> "none", v |-> 0]

VBool(b) == [k |-> "bool", v |-> b]

VInt(n) == [k |-> "int", v |-> n]

RECURSIVE FloatNorm(_, _)
FloatNorm(m, d) == IF d > 0 /\ m % 10 = 0 THEN FloatNorm(m \div 10, d - 1) ELSE <<m, d>>

\* the float m / 10^d
VFloat(m, d) == [k |-> "float", v |-> FloatNorm(m, d)]

NaN == [k |-> "float", v |-> <<0, -1>>]

Inf(sign) == [k |-> "float", v |-> <<sign, -1>>]

VStr(s) == [k |-> "str", v |-> s]

\* repr of a float that Python prints positionally (1e-4 <= |x| < 1e16), or of nan, inf
FloatStr(f) ==
    IF f[2] < 0
    THEN IF f[1] = 0 THEN <<"n","a","n">>
         ELSE IF f[1] > 0 THEN <<"i","n","f">> ELSE <<"-","i","n","f">>
    ELSE LET a == Abs(f[1])
             p == Pow10(f[2])
             frac == IF f[2] = 0 THEN <<"0">> ELSE PadZeros(NatDigits(a % p), f[2])
         IN (IF f[1] < 0 THEN <<"-">> ELSE <<>>) \o NatDigits(a \div p) \o <<".">> \o frac

\* str(value)
Str(x) ==
    CASE x.k = "none"  -> <<"N","o","n","e">>
      [] x.k = "bool"  -> IF x.v THEN <<"T","r","u","e">> ELSE <<"F","a","l","s","e">>
      [] x.k = "int"   -> IntStr(x.v)
      [] x.k = "float" -> FloatStr(x.v)
      [] x.k = "str"   -> x.v

\* bool(value): Python's truth value
Truthy(x) ==
    CASE x.k = "none"  -> FALSE
      [] x.k = "bool"  -> x.v
      [] x.k = "int"   -> x.v # 0
      [] x.k = "float" -> x.v # <<0, 0>>
      [] x.k = "str"   -> x.v # <<>>

\* A digit part of a numeric literal: digits, single underscores between digits
IsDigitPart(s) ==
    /\ s # <<>>
    /\ IsDigit(s[1]) /\ IsDigit(s[Len(s)])
    /\ \A i \in 1..Len(s) : IsDigit(s[i]) \/ s[i] = "_"
    /\ \A i \in 1..(Len(s) - 1) : ~(s[i] = "_" /\ s[i + 1] = "_")

RECURSIVE DigitsValue(_, _)
DigitsValue(s, acc) ==
    IF s = <<>> THEN acc
    ELSE DigitsValue(Tail(s), IF Head(s) = "_" THEN acc ELSE 10 * acc + DigitVal(Head(s)))

\* the digits of a digit part, underscores dropped
RECURSIVE OnlyDigits(_)
OnlyDigits(s) == IF s = <<>> THEN <<>>
                 ELSE (IF Head(s) = "_" THEN <<>> ELSE <<Head(s)>>) \o OnlyDigits(Tail(s))

HasSign(s) == s # <<>> /\ s[1] \in {"+", "-"}

Unsigned(s) == IF HasSign(s) THEN Tail(s) ELSE s

SignOf(s) == IF s # <<>> /\ s[1] = "-" THEN 0 - 1 ELSE 1

\* int(text): [ok |-> FALSE] stands for ValueError
ParseInt(text) ==
    LET s == Strip(text)
        body == Unsigned(s)
    IN IF IsDigitPart(body)
       THEN [ok |-> TRUE, v |-> SignOf(s) * DigitsValue(body, 0)]
       ELSE [ok |-> FALSE, v |-> 0]

FirstIndex(s, cs) == IF \E i \in 1..Len(s) : s[i] \in cs
                     THEN CHOOSE i \in 1..Len(s) :
                              s[i] \in cs /\ \A j \in 1..(i - 1) : s[j] \notin cs
                     ELSE 0

\* float(text): [ok |-> FALSE] stands for ValueError
ParseFloat(text) ==
    LET s == Strip(text)
        sign == SignOf(s)
        body == Unsigned(s)
        low == Lower(body)
        e == FirstIndex(body, {"e", "E"})
        mant == IF e = 0 THEN body ELSE SubSeq(body, 1, e - 1)
        expo == IF e = 0 THEN <<>> ELSE SubSeq(body, e + 1, Len(body))
        expOk == e = 0 \/ IsDigitPart(Unsigned(expo))
        expVal == IF e = 0 \/ ~expOk THEN 0
                  ELSE SignOf(expo) * DigitsValue(Unsigned(expo), 0)
        dot == FirstIndex(mant, {"."})
        intp == IF dot = 0 THEN mant ELSE SubSeq(mant, 1, dot - 1)
        fracp == IF dot = 0 THEN <<>> ELSE SubSeq(mant, dot + 1, Len(mant))
        mantOk == IF dot = 0 THEN IsDigitPart(intp)
                  ELSE /\ intp = <<>> \/ IsDigitPart(intp)
                       /\ fracp = <<>> \/ IsDigitPart(fracp)
                       /\ ~(intp = <<>> /\ fracp = <<>>)
        digits == OnlyDigits(intp) \o OnlyDigits(fracp)
        d == Len(OnlyDigits(fracp)) - expVal
        m == sign * DigitsValue(digits, 0)
    IN IF low \in {<<"i","n","f">>, <<"i","n","f","i","n","i","t","y">>}
       THEN [ok |-> TRUE, v |-> <<sign, -1>>]
       ELSE IF low = <<"n","a","n">>
       THEN [ok |-> TRUE, v |-> <<0, -1>>]
       ELSE IF mantOk /\ expOk
       THEN [ok |-> TRUE, v |-> IF d < 0 THEN <<m * Pow10(0 - d), 0>> ELSE FloatNorm(m, d)]
       ELSE [ok |-> FALSE, v |-> <<0, 0>>]

\* int(value) on a finite float: truncation towards zero
TruncFloat(f) == IF f[1] < 0 THEN 0 - (Abs(f[1]) \div Pow10(f[2])) ELSE f[1] \div Pow10(f[2])

-----------------------------------------------------------------------------
(* Python dicts, which keep insertion order: sequences of <<key, value>> *)

DictHas(d, key) == \E i \in 1..Len(d) : d[i][1] = key

DictIndex(d, key) == CHOOSE i \in 1..Len(d) : d[i][1] = key

\* d.get(key)
DictGet(d, key) == IF DictHas(d, key) THEN d[DictIndex(d, key)][2] ELSE None

\* d[key] = value: a new key goes last, a known key keeps its place
DictPut(d, key, value) ==
    IF DictHas(d, key)
    THEN [d EXCEPT ![DictIndex(d, key)] = <<key, value>>]
    ELSE Append(d, <<key, value>>)

RECURSIVE DictKeys(_)
DictKeys(d) == IF d = <<>> THEN <<>> ELSE <<Head(d)[1]>> \o DictKeys(Tail(d))

-----------------------------------------------------------------------------
(* to_csharp_type, to_pascal_case, to_camel_case *)

ToCsharpTypeBoolAfterInt(value) ==
    IF value.k = "none" THEN "string"
    ELSE IF value.k \in {"int", "bool"} THEN "int"
    ELSE IF value.k = "float" THEN "float"
    ELSE LET value_str == Strip(Str(value))
         IN IF value_str = <<>> THEN "string"
            ELSE IF Lower(value_str) \in {<<"t","r","u","e">>, <<"f","a","l","s","e">>}
            THEN "bool"
            ELSE IF ParseInt(value_str).ok THEN "int"
            ELSE IF ParseFloat(value_str).ok THEN "float"
            ELSE "string"

to_csharp_type(value) ==
    IF value.k = "none" THEN "string"
    ELSE IF value.k = "bool" THEN "bool"
    ELSE IF value.k = "int" THEN "int"
    ELSE IF value.k = "float" THEN "float"
    ELSE LET value_str == Strip(Str(value))
         IN IF value_str = <<>> THEN "string"
            ELSE IF Lower(value_str) \in {<<"t","r","u","e">>, <<"f","a","l","s","e">>}
            THEN "bool"
            ELSE IF ParseInt(value_str).ok THEN "int"
            ELSE IF ParseFloat(value_str).ok THEN "float"
            ELSE "string"

\* the loop of to_pascal_case: the maximal runs of alphanumeric characters
RECURSIVE SplitWords(_, _, _)
SplitWords(name, current, parts) ==
    IF name = <<>>
    THEN IF current # <<>> THEN Append(parts, current) ELSE parts
    ELSE IF IsAlnum(Head(name))
    THEN SplitWords(Tail(name), Append(current, Head(name)), parts)
    ELSE SplitWords(Tail(name), <<>>,
                    IF current # <<>> THEN Append(parts, current) ELSE parts)

RECURSIVE JoinCapitalized(_)
JoinCapitalized(parts) ==
    IF parts = <<>> THEN <<>>
    ELSE Capitalize(Head(parts)) \o JoinCapitalized(Tail(parts))

to_pascal_case(name) ==
    LET parts == SplitWords(name, <<>>, <<>>)
    IN JoinCapitalized(IF parts = <<>> THEN <<name>> ELSE parts)

to_camel_case(name) ==
    LET pascal == to_pascal_case(name)
    IN IF pascal = <<>> THEN pascal ELSE <<LowerChar(Head(pascal))>> \o Tail(pascal)

-----------------------------------------------------------------------------
(* parse_excel_file.  A workbook is [ok, sheets]: ok = FALSE when           *)
(* load_workbook raises; a sheet is [name, rows], rows the grid of cell    *)
(* values, max_row rows of max_column cells (an empty sheet is one row of *)
(* one None cell).                                                         *)

\* line 92: the header of column `column`
HeaderOf(value, column) ==
    IF Truthy(value) THEN Strip(Str(value))
    ELSE <<"C","o","l","u","m","n">> \o IntStr(column)

\* lines 90-93
RECURSIVE ReadHeaders(_, _)
ReadHeaders(row1, column) ==
    IF column > Len(row1) THEN <<>>
    ELSE <<HeaderOf(row1[column], column)>> \o ReadHeaders(row1, column + 1)

\* lines 104-111: int, float and bool are kept, anything else is stripped text
CellData(value) ==
    IF value.k \in {"none", "int", "float", "bool"} THEN value
    ELSE VStr(Strip(Str(value)))

\* lines 98-111: row_data, filled column by column
RECURSIVE ReadRow(_, _, _, _)
ReadRow(headers, cells, col_idx, row_data) ==
    IF col_idx > Len(headers) THEN row_data
    ELSE ReadRow(headers, cells, col_idx + 1,
                 DictPut(row_data, headers[col_idx], CellData(cells[col_idx])))

\* v is not None and str(v).strip() != ""
NonBlank(v) == v # None /\ Strip(Str(v)) # <<>>

\* a reader that keeps blank rows too
KeepEveryRow(row_data) == TRUE

\* line 114
KeepRow(row_data) == \E i \in 1..Len(row_data) : NonBlank(row_data[i][2])

\* lines 96-115
RECURSIVE ReadDataRows(_, _, _)
ReadDataRows(headers, rows, row_idx) ==
    IF row_idx > Len(rows) THEN <<>>
    ELSE LET row_data == ReadRow(headers, rows[row_idx], 1, <<>>)
         IN (IF KeepRow(row_data) THEN <<row_data>> ELSE <<>>)
            \o ReadDataRows(headers, rows, row_idx + 1)

\* lines 89-121: the table_info of one sheet with max_row >= 2
ReadSheet(ws) ==
    LET headers == ReadHeaders(ws.rows[1], 1)
    IN [headers |-> headers, data |-> ReadDataRows(headers, ws.rows, 2)]

\* lines 82-121: result, an ordered dict sheet name -> table_info
RECURSIVE ReadSheets(_, _)
ReadSheets(sheets, result) ==
    IF sheets = <<>> THEN result
    ELSE LET ws == Head(sheets)
             info == ReadSheet(ws)
         IN ReadSheets(Tail(sheets),
                       IF Len(ws.rows) < 2 \/ info.data = <<>> THEN result
                       ELSE DictPut(result, ws.name, info))

\* parse_excel_file; <<>> stands for both None and the empty dict, which main
\* treats alike (`if not tables`)
parse_excel_file(wb) == IF ~wb.ok THEN <<>> ELSE ReadSheets(wb.sheets, <<>>)

-----------------------------------------------------------------------------
(* The type inference: main lines 514-534, generate_csharp_class 130-153  *)

\* value is not None and str(value).strip()
NonEmpty(value) == value # None /\ Strip(Str(value)) # <<>>

\* lines 526-530 (145-149): float(str(check_value)) succeeds and "." in str(check_value)
IsDecimalNumber(check_value) ==
    /\ check_value # None
    /\ ParseFloat(Str(check_value)).ok
    /\ HasDot(Str(check_value))

\* an inference that never looks past the first value
NoPromotion(header, data) == FALSE

\* lines 523-532 (142-151): the scan of every row of the column for a decimal number
HasDecimal(header, data) ==
    \E i \in 1..Len(data) : IsDecimalNumber(DictGet(data[i], header))

\* the index of the first row whose value for header is non-empty, 0 when none
FirstNonEmpty(header, data) ==
    IF \E i \in 1..Len(data) : NonEmpty(DictGet(data[i], header))
    THEN CHOOSE i \in 1..Len(data) :
             /\ NonEmpty(DictGet(data[i], header))
             /\ \A j \in 1..(i - 1) : ~NonEmpty(DictGet(data[j], header))
    ELSE 0

InferLastValue(header, data) ==
    LET nonEmpty == {i \in 1..Len(data) : NonEmpty(DictGet(data[i], header))}
    IN IF nonEmpty = {} THEN "string"
       ELSE to_csharp_type(DictGet(data[CHOOSE i \in nonEmpty : \A j \in nonEmpty : j <= i],
                                   header))

\* main lines 515-534: the type of one header
InferType(header, data) ==
    LET first == FirstNonEmpty(header, data)
        inferred_type == IF first = 0 THEN "string"
                         ELSE to_csharp_type(DictGet(data[first], header))
    IN IF inferred_type = "int" /\ HasDecimal(header, data) THEN "float"
       ELSE inferred_type

\* a class generator that types a column by its first non-empty value alone
InferWithoutPromotion(header, data_rows) ==
    IF FirstNonEmpty(header, data_rows) = 0 THEN "string"
    ELSE to_csharp_type(DictGet(data_rows[FirstNonEmpty(header, data_rows)], header))

\* generate_csharp_class lines 132-153: the same inference, written out a second time
InferFieldType(header, data_rows) ==
    LET first == FirstNonEmpty(header, data_rows)
        inferred_type == IF first = 0 THEN "string"
                         ELSE to_csharp_type(DictGet(data_rows[first], header))
    IN IF inferred_type = "int" /\ HasDecimal(header, data_rows) THEN "float"
       ELSE inferred_type

\* main line 514-534: field_types_map
RECURSIVE FieldTypesMap(_, _, _)
FieldTypesMap(headers, data, map) ==
    IF headers = <<>> THEN map
    ELSE FieldTypesMap(Tail(headers), data,
                       DictPut(map, Head(headers), InferType(Head(headers), data)))

-----------------------------------------------------------------------------
(* The coercion of the values: main lines 536-574 *)

\* lines 546-553
DefaultOf(csharp_type) ==
    CASE csharp_type = "int"   -> VInt(0)
      [] csharp_type = "float" -> VFloat(0, 0)
      [] csharp_type = "bool"  -> VBool(FALSE)
      [] OTHER                 -> VStr(<<>>)

\* lines 557-560: int(value), 0 on ValueError (int(nan) raises it) or TypeError
ToInt(value) ==
    CASE value.k = "bool"  -> VInt(IF value.v THEN 1 ELSE 0)
      [] value.k = "int"   -> value
      [] value.k = "float" -> IF value.v[2] < 0 THEN VInt(0) ELSE VInt(TruncFloat(value.v))
      [] value.k = "str"   -> IF ParseInt(value.v).ok THEN VInt(ParseInt(value.v).v)
                              ELSE VInt(0)

\* lines 562-565: float(value), 0.0 on ValueError or TypeError
ToFloat(value) ==
    CASE value.k = "bool"  -> VFloat(IF value.v THEN 1 ELSE 0, 0)
      [] value.k = "int"   -> VFloat(value.v, 0)
      [] value.k = "float" -> value
      [] value.k = "str"   -> IF ParseFloat(value.v).ok
                              THEN [k |-> "float", v |-> ParseFloat(value.v).v]
                              ELSE VFloat(0, 0)

\* lines 567-570
ToBool(value) ==
    IF value.k = "bool" THEN value
    ELSE VBool(Lower(Str(value)) \in {<<"t","r","u","e">>, <<"1">>, <<"y","e","s">>})

\* lines 544-573: the value written for one cell
Convert(csharp_type, value) ==
    IF value = None THEN DefaultOf(csharp_type)
    ELSE CASE csharp_type = "int"   -> ToInt(value)
           [] csharp_type = "float" -> ToFloat(value)
           [] csharp_type = "bool"  -> ToBool(value)
           [] OTHER                 -> VStr(Str(value))

\* lines 537-573: converted_row, filled in the order of row.items()
RECURSIVE ConvertRow(_, _, _)
ConvertRow(row, field_types_map, converted_row) ==
    IF row = <<>> THEN converted_row
    ELSE LET header == Head(row)[1]
             value == Head(row)[2]
             pascal_header == to_pascal_case(header)
             csharp_type == IF DictHas(field_types_map, header)
                            THEN DictGet(field_types_map, header) ELSE "string"
         IN ConvertRow(Tail(row), field_types_map,
                       DictPut(converted_row, pascal_header, Convert(csharp_type, value)))

\* lines 510-581: converted_data, the items of the document
RECURSIVE ConvertData(_, _)
ConvertData(data, field_types_map) ==
    IF data = <<>> THEN <<>>
    ELSE <<ConvertRow(Head(data), field_types_map, <<>>)>>
         \o ConvertData(Tail(data), field_types_map)

\* lines 581-595: json_data, the document written to <table_key>.json
JsonDocument(table_info) ==
    [items |-> ConvertData(table_info.data,
                           FieldTypesMap(table_info.headers, table_info.data, <<>>))]

\* line 174: field_name, which the class code does not use
field_name(header) == to_camel_case(header)

\* line 171: property_name, the name the field is declared with
property_name(header) == to_pascal_case(header)

\* generate_csharp_class lines 169-175: the fields, one line per header, in order
RECURSIVE ClassFields(_, _)
ClassFields(headers, data_rows) ==
    IF headers = <<>> THEN <<>>
    ELSE <<[type |-> InferFieldType(Head(headers), data_rows),
            name |-> property_name(Head(headers))]>>
         \o ClassFields(Tail(headers), data_rows)

\* generate_csharp_class: class <Pascal(table_name)>Data with its fields
generate_csharp_class(table_name, headers, data_rows) ==
    [name |-> to_pascal_case(table_name) \o <<"D","a","t","a">>,
     fields |-> ClassFields(headers, data_rows)]

-----------------------------------------------------------------------------
(* main *)

\* line 500: table_key
TableKey(stem, sheet_name, n_tables) ==
    IF n_tables > 1 THEN stem \o <<"_">> \o sheet_name ELSE stem

\* lines 499-607, one pass of the loop over tables.items(): the document and the
\* record type are written and the table is entered in all_tables
ExportTable(stem, sheet_name, table_info, n_tables, out) ==
    LET table_key == TableKey(stem, sheet_name, n_tables)
        class == generate_csharp_class(table_key, table_info.headers, table_info.data)
    IN [json    |-> DictPut(out.json, table_key, JsonDocument(table_info)),
        classes |-> IF table_info.data # <<>>
                    THEN DictPut(out.classes, class.name, class)
                    ELSE out.classes,
        tables  |-> DictPut(out.tables, table_key, table_info),
        written |-> Append(out.written, <<stem, sheet_name, table_key>>)]

\* lines 499-607: the loop over tables.items()
RECURSIVE ExportTables(_, _, _, _)
ExportTables(stem, tables, i, out) ==
    IF i > Len(tables) THEN out
    ELSE ExportTables(stem, tables, i + 1,
                      ExportTable(stem, tables[i][1], tables[i][2], Len(tables), out))

\* the orders in which the glob of line 478 may list the files: any
RECURSIVE Orders(_)
Orders(S) == IF S = {} THEN {<<>>}
             ELSE UNION {{<<x>> \o o : o \in Orders(S \ {x})} : x \in S}

\* lines 470-487: the glob; main returns at once when it finds no file
ListFiles ==
    /\ pc = "start"
    /\ \E order \in Orders(DOMAIN files) :
          /\ xlsx_files' = order
          /\ pc' = IF order = <<>> THEN "done" ELSE "loop"
    /\ all_tables' = <<>>
    /\ written' = <<>>
    /\ UNCHANGED <<files, json_files, class_files, manager_file, run, prev_json>>
    /\ UNCHANGED managerVars

\* lines 490-607: one pass of the loop over xlsx_files
ProcessFile ==
    /\ pc = "loop"
    /\ xlsx_files # <<>>
    /\ LET xlsx_file == Head(xlsx_files)
           tables == parse_excel_file(files[xlsx_file])
           out == ExportTables(xlsx_file, tables, 1,
                               [json |-> json_files, classes |-> class_files,
                                tables |-> all_tables, written |-> written])
       IN IF tables = <<>>
          THEN UNCHANGED <<json_files, class_files, all_tables, written>>
          ELSE /\ json_files' = out.json
               /\ class_files' = out.classes
               /\ all_tables' = out.tables
               /\ written' = out.written
    /\ xlsx_files' = Tail(xlsx_files)
    /\ UNCHANGED <<files, pc, manager_file, run, prev_json>>
    /\ UNCHANGED managerVars

\* lines 609-625: the manager and the array wrappers, one entry per key of all_tables
FinishMain ==
    /\ pc = "loop"
    /\ xlsx_files = <<>>
    /\ manager_file' = IF all_tables # <<>> THEN DictKeys(all_tables) ELSE manager_file
    /\ pc' = "done"
    /\ UNCHANGED <<files, xlsx_files, all_tables, json_files, class_files, written,
                   run, prev_json>>
    /\ UNCHANGED managerVars


\* main is run again over the same DataTables directory: the output directories
\* keep the files of the run before
Rerun ==
    /\ pc = "done"
    /\ run < MaxRuns
    /\ run' = run + 1
    /\ prev_json' = json_files
    /\ pc' = "start"
    /\ UNCHANGED <<files, xlsx_files, all_tables, json_files, class_files,
                   manager_file, written>>
    /\ UNCHANGED managerVars

-----------------------------------------------------------------------------
(* The generated ExcelDataManager (generate_data_manager_code) at run time. *)
(* An asset is [kind, doc]: kind "missing" (Resources.Load gives null),     *)
(* "empty" (the text is ""), "blank" (white space only), "malformed"        *)
(* (FromJson throws), "null" (FromJson gives null), "noitems" (the items     *)
(* array is null) or "json" (doc is the document).  An item is the ordered  *)
(* dict field name -> value of an object of the table's record type; null   *)
(* is <<>>.                                                                 *)

Null == <<>>

Asset(kind, doc) == [kind |-> kind, doc |-> doc]

\* line 252, JsonUtility.FromJson: an object of the record type, each field taking
\* the value the row object holds under the field's name, or the type's default
RECURSIVE FromJsonItem(_, _)
FromJsonItem(row, fields) ==
    IF fields = <<>> THEN <<>>
    ELSE LET f == Head(fields)
         IN <<<<f.name, IF DictHas(row, f.name)
                           /\ DictGet(row, f.name).k = (IF f.type = "string" THEN "str"
                                                        ELSE f.type)
                        THEN DictGet(row, f.name) ELSE DefaultOf(f.type)>>>>
            \o FromJsonItem(row, Tail(fields))

RECURSIVE FromJsonItems(_, _)
FromJsonItems(rows, fields) ==
    IF rows = <<>> THEN <<>>
    ELSE <<FromJsonItem(Head(rows), fields)>> \o FromJsonItems(Tail(rows), fields)

\* value.ToString() of a field value in C#: a whole float prints without ".0"
CsToString(value) ==
    CASE value.k = "int"   -> IntStr(value.v)
      [] value.k = "bool"  -> IF value.v THEN <<"T","r","u","e">> ELSE <<"F","a","l","s","e">>
      [] value.k = "float" -> IF value.v[2] = 0 THEN IntStr(value.v[1])
                              ELSE IF value.v[2] < 0 /\ value.v[1] = 0 THEN <<"N","a","N">>
                              ELSE IF value.v[2] < 0 THEN <<"I","n","f">>
                              ELSE FloatStr(value.v)
      [] value.k = "str"   -> value.v

\* int.TryParse: white space, an optional sign, digits
TryParse(text) ==
    LET s == Strip(text)
        body == Unsigned(s)
    IN IF body # <<>> /\ \A i \in 1..Len(body) : IsDigit(body[i])
       THEN [ok |-> TRUE, v |-> SignOf(s) * DigitsValue(body, 0)]
       ELSE [ok |-> FALSE, v |-> 0]

\* lines 339-343 and 355-359: the id a field value gives, 0 when it gives none
IdOfValue(value) ==
    IF value.k = "int" /\ value.v # 0 THEN value.v
    ELSE IF TryParse(CsToString(value)).ok THEN TryParse(CsToString(value)).v
    ELSE 0

\* line 332
idFieldNames == <<<<"I","d">>, <<"I","D">>, <<"i","d">>, <<"i","D">>,
                  <<"I","D","_">>, <<"I","d","_">>, <<"i","d","_">>>>

\* fieldName.ToLower().Contains("id")
ContainsId(fieldName) ==
    \E i \in 1..(Len(fieldName) - 1) :
        LowerChar(fieldName[i]) = "i" /\ LowerChar(fieldName[i + 1]) = "d"

\* lines 334-345: the first of idFieldNames that is a field with a non-zero id
RECURSIVE IdByName(_, _)
IdByName(item, names) ==
    IF names = <<>> THEN 0
    ELSE IF DictHas(item, Head(names)) /\ IdOfValue(DictGet(item, Head(names))) # 0
    THEN IdOfValue(DictGet(item, Head(names)))
    ELSE IdByName(item, Tail(names))

\* lines 348-361: the first field whose name contains "id" with a non-zero id
RECURSIVE IdByScan(_, _)
IdByScan(item, i) ==
    IF i > Len(item) THEN 0
    ELSE IF ContainsId(item[i][1]) /\ IdOfValue(item[i][2]) # 0
    THEN IdOfValue(item[i][2])
    ELSE IdByScan(item, i + 1)

\* the id the first field gives, whatever its name
GetIdValueFirstField(item) == IF item = <<>> THEN 0 ELSE IdOfValue(item[1][2])

\* lines 325-364: GetIdValue; 0 stands for null, which line 283 treats like 0
GetIdValue(item) ==
    IF IdByName(item, idFieldNames) # 0 THEN IdByName(item, idFieldNames)
    ELSE IdByScan(item, 1)

\* lines 274-292: the items of one table go to its list and, by id, to its dict
RECURSIVE LoadItems(_, _, _)
LoadItems(items, list, dict) ==
    IF items = <<>> THEN [list |-> list, dict |-> dict]
    ELSE LET item == Head(items)
             idValue == GetIdValue(item)
         IN CHOOSE loaded \in
                {LoadItems(rest, l, d) :
                    rest \in {Tail(items)},
                    l \in {IF item # Null THEN Append(list, item) ELSE list},
                    d \in {IF item # Null /\ idValue # 0
                           THEN DictPut(dict, idValue, item) ELSE dict}} : TRUE

\* the fields of the record type compiled for a table
FieldsOf(table_name) ==
    DictGet(class_files, to_pascal_case(table_name) \o <<"D","a","t","a">>).fields

\* lines 229-320: the body of Initialize from the i-th table on; st is
\* [init, list, dict], list and dict being ordered dicts keyed by table
RECURSIVE LoadTables(_, _)
LoadTables(i, st) ==
    IF i > Len(manager_file) THEN [st EXCEPT !.init = TRUE]
    ELSE LET table_name == manager_file[i]
             asset == DictGet(resources, table_name)
         IN IF asset.kind \in {"missing", "empty", "malformed"}
            THEN LoadTables(i + 1, st)
            ELSE IF asset.kind \in {"blank", "null", "noitems"}
            THEN st
            ELSE CHOOSE done \in
                    {LoadTables(i + 1,
                                [st EXCEPT !.list = DictPut(st.list, table_name, loaded.list),
                                           !.dict = DictPut(st.dict, table_name, loaded.dict)]) :
                        loaded \in {LoadItems(FromJsonItems(asset.doc.items,
                                                            FieldsOf(table_name)),
                                              DictGet(st.list, table_name),
                                              DictGet(st.dict, table_name))}} : TRUE

\* lines 220-320: Initialize
InitializeFrom(st) == IF st.init THEN st ELSE LoadTables(1, st)

ManagerState == [init |-> isInitialized, list |-> dataList, dict |-> dataDict]

\* the workbooks are exported and the project is built: the documents are the
\* assets of Resources/ExcelImporter, every list and dict is empty (lines 200-212)
RECURSIVE EmptyPerTable(_)
EmptyPerTable(names) ==
    IF names = <<>> THEN <<>>
    ELSE DictPut(EmptyPerTable(Tail(names)), Head(names), <<>>)

RECURSIVE JsonAssets(_)
JsonAssets(names) ==
    IF names = <<>> THEN <<>>
    ELSE DictPut(JsonAssets(Tail(names)), Head(names),
                 Asset("json", DictGet(json_files, Head(names))))

\* the generated code compiles: no two tables share a class name and no record type
\* declares a field name twice
Compiles ==
    /\ \A i, j \in 1..Len(manager_file) :
           to_pascal_case(manager_file[i]) = to_pascal_case(manager_file[j]) => i = j
    /\ \A t \in 1..Len(manager_file) :
           LET fields == FieldsOf(manager_file[t])
           IN \A i, j \in 1..Len(fields) : fields[i].name = fields[j].name => i = j

Build ==
    /\ pc = "done"
    /\ manager_file # <<>>
    /\ Compiles
    /\ pc' = "running"
    /\ resources' = JsonAssets(manager_file)
    /\ isInitialized' = FALSE
    /\ dataList' = EmptyPerTable(manager_file)
    /\ dataDict' = EmptyPerTable(manager_file)
    /\ UNCHANGED <<ret, calls, initializeReturned>>
    /\ UNCHANGED <<files, xlsx_files, all_tables, json_files, class_files, manager_file,
                   written, run, prev_json>>

\* what Resources.Load and FromJson can make of a table's asset (lines 232-268)
AssetKinds == {"missing", "empty", "blank", "malformed", "null", "noitems", "json"}

RECURSIVE AssetsOfKinds(_, _, _)
AssetsOfKinds(names, kinds, i) ==
    IF i > Len(names) THEN <<>>
    ELSE DictPut(AssetsOfKinds(names, kinds, i + 1), names[i],
                 IF kinds[i] = "json"
                 THEN Asset("json", DictGet(json_files, names[i]))
                 ELSE Asset(kinds[i], [items |-> <<>>]))

\* the project is built with the asset of each table in any condition: the exported
\* document, or a file that is absent, empty, blank, malformed or without items
BuildWithAssets ==
    /\ pc = "done"
    /\ manager_file # <<>>
    /\ Compiles
    /\ pc' = "running"
    /\ \E kinds \in [1..Len(manager_file) -> AssetKinds] :
          resources' = AssetsOfKinds(manager_file, kinds, 1)
    /\ isInitialized' = FALSE
    /\ dataList' = EmptyPerTable(manager_file)
    /\ dataDict' = EmptyPerTable(manager_file)
    /\ UNCHANGED <<ret, calls, initializeReturned>>
    /\ UNCHANGED <<files, xlsx_files, all_tables, json_files, class_files, manager_file,
                   written, run, prev_json>>

\* a call of ExcelDataManager.Initialize()
Initialize ==
    /\ pc = "running"
    /\ calls < MaxCalls
    /\ \E st \in {InitializeFrom(ManagerState)} :
          /\ isInitialized' = st.init
          /\ dataList' = st.list
          /\ dataDict' = st.dict
    /\ ret' = [call |-> <<"Initialize">>, value |-> <<>>]
    /\ calls' = calls + 1
    /\ UNCHANGED <<resources>>
    /\ initializeReturned' = TRUE
    /\ UNCHANGED exportVars

\* the ids the accessors are called with
IdArgs == {0, 1, 2, 3}

\* lines 378-383: Get<table>ById(id)
GetById ==
    /\ pc = "running"
    /\ calls < MaxCalls
    /\ \E t \in 1..Len(manager_file), id \in IdArgs :
       \E st \in {InitializeFrom(ManagerState)} :
          /\ isInitialized' = st.init
          /\ dataList' = st.list
          /\ dataDict' = st.dict
          /\ ret' = [call |-> <<"GetById", manager_file[t], id>>,
                     value |-> LET dict == DictGet(st.dict, manager_file[t])
                               IN IF DictHas(dict, id) THEN DictGet(dict, id) ELSE Null]
    /\ calls' = calls + 1
    /\ UNCHANGED <<resources, initializeReturned>>
    /\ UNCHANGED exportVars

\* lines 388-392: GetAll<table>()
GetAll ==
    /\ pc = "running"
    /\ calls < MaxCalls
    /\ \E t \in 1..Len(manager_file) :
       \E st \in {InitializeFrom(ManagerState)} :
          /\ isInitialized' = st.init
          /\ dataList' = st.list
          /\ dataDict' = st.dict
          /\ ret' = [call |-> <<"GetAll", manager_file[t]>>,
                     value |-> DictGet(st.list, manager_file[t])]
    /\ calls' = calls + 1
    /\ UNCHANGED <<resources, initializeReturned>>
    /\ UNCHANGED exportVars

\* the predicates Query is called with: one on the first field's id, one always true
Holds(predicate, item) ==
    IF predicate = "all" THEN TRUE ELSE IdOfValue(item[1][2]) = 1

RECURSIVE Where(_, _)
Where(list, predicate) ==
    IF list = <<>> THEN <<>>
    ELSE (IF Holds(predicate, Head(list)) THEN <<Head(list)>> ELSE <<>>)
         \o Where(Tail(list), predicate)

\* lines 397-401: Query<table>(predicate)
Query ==
    /\ pc = "running"
    /\ calls < MaxCalls
    /\ \E t \in 1..Len(manager_file), predicate \in {"all", "first is 1"} :
       \E st \in {InitializeFrom(ManagerState)} :
          /\ isInitialized' = st.init
          /\ dataList' = st.list
          /\ dataDict' = st.dict
          /\ ret' = [call |-> <<"Query", manager_file[t], predicate>>,
                     value |-> Where(DictGet(st.list, manager_file[t]), predicate)]
    /\ calls' = calls + 1
    /\ UNCHANGED <<resources, initializeReturned>>
    /\ UNCHANGED exportVars

-----------------------------------------------------------------------------
(* The inputs *)

TextId == <<"I","d">>

TextName == <<"N","a","m","e">>

StemA == <<"A">>

StemAB == <<"A","_","B">>

SheetNames == <<<<"B">>, <<"C">>, <<"D">>, <<"E">>>>

HeaderIdName == <<VStr(TextId), VStr(TextName)>>

\* a header row alone: max_row < 2
RowsHeaderOnly == <<HeaderIdName>>

\* a header row and one data row whose cells are absent or blank text
RowsBlank == <<HeaderIdName, <<None, VStr(<<" ">>)>>>>

\* two data rows with a fully blank row between them
RowsPopulated == <<HeaderIdName, <<VInt(1), VStr(<<"x">>)>>, <<None, None>>,
                   <<VInt(2), VStr(<<"y">>)>>>>

RowsOther == <<HeaderIdName, <<VInt(7), VStr(<<"z">>)>>>>

\* the same header twice; the one data row holds text under the first only
RowsRepeatedHeader == <<<<VStr(<<"a">>), VStr(<<"a">>)>>, <<VStr(<<"x">>), None>>>>

\* two headers that differ in letter case only
RowsCaseHeaders == <<<<VStr(<<"a">>), VStr(<<"A">>)>>, <<None, VInt(5)>>>>

BatchGrids == {RowsHeaderOnly, RowsBlank, RowsPopulated, RowsRepeatedHeader,
               RowsCaseHeaders}

RerunGrids == {RowsPopulated, RowsOther}

\* the workbooks of 1..MaxSheets sheets, named in the order of SheetNames, whose
\* grids are drawn from grids, and the workbook that does not load
RECURSIVE SheetLists(_, _)
SheetLists(grids, n) ==
    IF n = 0 THEN {<<>>}
    ELSE {Append(l, [name |-> SheetNames[n], rows |-> g]) :
              l \in SheetLists(grids, n - 1), g \in grids}

Workbooks(grids) ==
    {[ok |-> FALSE, sheets |-> <<>>]}
    \cup {[ok |-> TRUE, sheets |-> l] :
              l \in UNION {SheetLists(grids, n) : n \in 1..MaxSheets}}

\* the cell values of the Hp column
ColumnValues ==
    {None, VStr(<<" ">>), VBool(TRUE), VInt(150), VFloat(1505, 1),
     VStr(<<"T","r","u","e">>), VStr(<<"7">>), VStr(<<" ","1","2"," ">>),
     VStr(<<"1",".","5">>), VStr(<<"1","e","3">>), VStr(<<"a","b","c">>),
     VStr(<<"x",".","y">>)}

\* the grid of a sheet with the headers Id and Hp: row r holds r and col[r]
RECURSIVE ColumnRows(_, _)
ColumnRows(col, r) ==
    IF r > Len(col) THEN <<>> ELSE <<<<VInt(r), col[r]>>>> \o ColumnRows(col, r + 1)

ColumnWorkbook(col) ==
    [ok |-> TRUE,
     sheets |-> <<[name |-> SheetNames[1],
                   rows |-> <<<<VStr(TextId), VStr(<<"H","p">>)>>>> \o ColumnRows(col, 1)]>>]

\* the state before main runs and before the manager is initialized
InitRest ==
    /\ xlsx_files = <<>>
    /\ pc = "start"
    /\ all_tables = <<>>
    /\ json_files = <<>>
    /\ class_files = <<>>
    /\ manager_file = <<>>
    /\ written = <<>>
    /\ run = 1
    /\ prev_json = <<>>
    /\ resources = <<>>
    /\ isInitialized = FALSE
    /\ dataList = <<>>
    /\ dataDict = <<>>
    /\ ret = [call |-> <<>>, value |-> <<>>]
    /\ calls = 0
    /\ initializeReturned = FALSE

\* the directory holds A.xlsx and A_B.xlsx
Directory(workbooksA, workbooksAB) ==
    {[stem \in {StemA, StemAB} |-> IF stem = StemA THEN a ELSE b] :
         a \in workbooksA, b \in workbooksAB}

Init ==
    /\ files \in Directory(Workbooks(BatchGrids), Workbooks({RowsOther}))
    /\ InitRest

Next == ListFiles \/ ProcessFile \/ FinishMain

Spec == Init /\ [][Next]_vars

InitRerun ==
    /\ files \in Directory(Workbooks(RerunGrids), Workbooks(RerunGrids))
    /\ InitRest

NextRerun == ListFiles \/ ProcessFile \/ FinishMain \/ Rerun

SpecRerun == InitRerun /\ [][NextRerun]_vars

\* the directory holds A.xlsx alone: one sheet, its Hp column drawn from ColumnValues
InitColumn ==
    /\ \E n \in 1..MaxRows : \E col \in [1..n -> ColumnValues] :
          files = [stem \in {StemA} |-> ColumnWorkbook(col)]
    /\ InitRest

SpecColumn == InitColumn /\ [][Next]_vars

\* the rows of a sheet with the headers Id and Name: row r holds ids[r] and a name
\* of its own
RowNames == <<<<"w">>, <<"x">>, <<"y">>, <<"z">>>>

RECURSIVE IdRows(_, _)
IdRows(ids, r) ==
    IF r > Len(ids) THEN <<>>
    ELSE <<<<VInt(ids[r]), VStr(RowNames[r])>>>> \o IdRows(ids, r + 1)

\* a sheet none of whose headers holds "id"
RowsCodeName == <<<<VStr(<<"C","o","d","e">>), VStr(TextName)>>,
                  <<VInt(1), VStr(<<"x">>)>>, <<VInt(0), VStr(<<"y">>)>>>>

\* the directory holds A.xlsx alone: a sheet with the headers Id and Name, its ids
\* drawn from 0..2, and a sheet with the headers Code and Name
InitManager ==
    /\ \E n \in 1..MaxItems : \E ids \in [1..n -> {0, 1, 2}] :
          files = [stem \in {StemA} |->
                      [ok |-> TRUE,
                       sheets |-> <<[name |-> SheetNames[1],
                                     rows |-> <<HeaderIdName>> \o IdRows(ids, 1)],
                                    [name |-> SheetNames[2], rows |-> RowsCodeName]>>]]
    /\ InitRest

NextManager == ListFiles \/ ProcessFile \/ FinishMain \/ Build
               \/ Initialize \/ GetById \/ GetAll \/ Query

SpecManager == InitManager /\ [][NextManager]_vars

\* the header cells of a sheet whose headers are drawn: blank, "a", "A", "a!"
HeaderCells == {None, VStr(<<"a">>), VStr(<<"A">>), VStr(<<"a","!">>)}

\* the cells of its data rows
HeaderValues == {None, VInt(1), VStr(<<"a","b","c">>)}

RECURSIVE PairRows(_, _)
PairRows(rows, r) ==
    IF r > Len(rows) THEN <<>>
    ELSE <<<<rows[r][1], rows[r][2]>>>> \o PairRows(rows, r + 1)

\* the directory holds A.xlsx alone, of one sheet of two columns
InitHeaders ==
    /\ \E h1, h2 \in HeaderCells : \E n \in 1..MaxHeaderRows :
       \E rows \in [1..n -> [1..2 -> HeaderValues]] :
          files = [stem \in {StemA} |->
                      [ok |-> TRUE,
                       sheets |-> <<[name |-> SheetNames[1],
                                     rows |-> <<<<h1, h2>>>> \o PairRows(rows, 1)]>>]]
    /\ InitRest

SpecHeaders == InitHeaders /\ [][Next]_vars

\* the directory holds A.xlsx alone, of two populated sheets
InitAssets ==
    /\ files = [stem \in {StemA} |->
                   [ok |-> TRUE,
                    sheets |-> <<[name |-> SheetNames[1], rows |-> RowsPopulated],
                                 [name |-> SheetNames[2], rows |-> RowsOther]>>]]
    /\ InitRest

NextAssets == ListFiles \/ ProcessFile \/ FinishMain \/ BuildWithAssets
              \/ Initialize \/ GetById \/ GetAll \/ Query

SpecAssets == InitAssets /\ [][NextAssets]_vars

TextPid == <<"P","i","d">>

RECURSIVE TwoIdRows(_, _)
TwoIdRows(ids, r) ==
    IF r > Len(ids) THEN <<>>
    ELSE <<<<VInt(ids[r][1]), VInt(ids[r][2])>>>> \o TwoIdRows(ids, r + 1)

\* the directory holds A.xlsx alone, of one sheet with the headers Id and Pid, the
\* Id of a row drawn from 0..1 and its Pid from {0, 2}
InitIds ==
    /\ \E n \in 1..MaxIdRows : \E ids \in [1..n -> {0, 1} \X {0, 2}] :
          files = [stem \in {StemA} |->
                      [ok |-> TRUE,
                       sheets |-> <<[name |-> SheetNames[1],
                                     rows |-> <<<<VStr(TextId), VStr(TextPid)>>>>
                                              \o TwoIdRows(ids, 1)]>>]]
    /\ InitRest

SpecIds == InitIds /\ [][NextManager]_vars

-----------------------------------------------------------------------------
(* What the claims speak of, stated on the sheets and on the files written *)

\* a cell that is absent, or text that is empty once stripped
BlankCell(value) == value.k = "none" \/ (value.k = "str" /\ Strip(value.v) = <<>>)

\* a sheet with at least one data row (row 2 or below) holding a non-blank cell
Populated(ws) ==
    \E r \in 2..Len(ws.rows) : \E c \in 1..Len(ws.rows[r]) : ~BlankCell(ws.rows[r][c])

PopulatedSheets(wb) == {i \in 1..Len(wb.sheets) : Populated(wb.sheets[i])}

\* main printed "sheet -> table_key" for this sheet of this file
Exported(stem, sheet_name) ==
    \E i \in 1..Len(written) : written[i][1] = stem /\ written[i][2] = sheet_name

\* the file has been through the loop of main in this run
Processed(stem) ==
    /\ pc \in {"loop", "done"}
    /\ \A i \in 1..Len(xlsx_files) : xlsx_files[i] # stem

\* the record type written for a table
ClassOf(table_key) == DictGet(class_files, to_pascal_case(table_key) \o <<"D","a","t","a">>)

\* the values of a column of a table, in row order
ColumnOf(header, data) == [i \in 1..Len(data) |-> DictGet(data[i], header)]

\* C1: a sheet with a header row and no data row holding a non-blank cell has no
\* entry in what parse_excel_file returns, and main exports nothing for it: no
\* document, no record type, no entry of all_tables is written on its behalf.
C1_UnpopulatedSheetExcluded ==
    \A stem \in DOMAIN files :
        \A i \in 1..Len(files[stem].sheets) :
            LET ws == files[stem].sheets[i]
            IN ~Populated(ws) =>
                   /\ ~DictHas(parse_excel_file(files[stem]), ws.name)
                   /\ ~Exported(stem, ws.name)

\* a workbook with a sheet of a header row and blank data rows only has been
\* processed, and another sheet of it was exported
C1_Witness ==
    /\ pc = "done"
    /\ \E stem \in DOMAIN files :
          /\ \E i \in 1..Len(files[stem].sheets) :
                LET ws == files[stem].sheets[i]
                IN Len(ws.rows) >= 2 /\ ~Populated(ws) /\ ~Exported(stem, ws.name)
          /\ \E i \in 1..Len(files[stem].sheets) : Exported(stem, files[stem].sheets[i].name)

-----------------------------------------------------------------------------
(* The column types: C2, C9, C10 *)

IsDigits(s) == s # <<>> /\ \A i \in 1..Len(s) : IsDigit(s[i])

\* text that looks like an integer: digits, after an optional sign
IntegerLooking(value) == value.k = "str" /\ IsDigits(Unsigned(value.v))

\* a number written with a decimal point: a float cell, or text of digits around "."
DecimalPointNumber(value) ==
    \/ value.k = "float" /\ value.v[2] >= 0
    \/ /\ value.k = "str"
       /\ \E i \in 1..Len(value.v) :
             /\ value.v[i] = "."
             /\ LET before == Unsigned(SubSeq(value.v, 1, i - 1))
                    after == SubSeq(value.v, i + 1, Len(value.v))
                IN /\ before = <<>> \/ IsDigits(before)
                   /\ after = <<>> \/ IsDigits(after)
                   /\ before # <<>> \/ after # <<>>

\* the kind of value a document holds for a field of a C# type
KindOf(csharp_type) ==
    CASE csharp_type = "int"   -> "int"
      [] csharp_type = "float" -> "float"
      [] csharp_type = "bool"  -> "bool"
      [] OTHER                 -> "str"

\* the type the record type declares for the i-th header of a table, which is also
\* the type main coerces the values of that header to
RecordedAs(table_key, i, csharp_type) ==
    LET info == DictGet(all_tables, table_key)
    IN /\ ClassOf(table_key).fields[i].type = csharp_type
       /\ DictGet(FieldTypesMap(info.headers, info.data, <<>>), info.headers[i]) = csharp_type

\* C2: a column whose non-empty values are integer-looking text except for one
\* number with a decimal point is inferred as float, wherever the decimal value
\* stands among the rows.
C2_OneDecimalMakesFloat ==
    \A t \in 1..Len(all_tables) :
        LET table_key == all_tables[t][1]
            info == all_tables[t][2]
        IN \A i \in 1..Len(info.headers) :
               LET col == ColumnOf(info.headers[i], info.data)
                   filled == {r \in 1..Len(col) : ~BlankCell(col[r])}
               IN (\E d \in filled :
                       /\ DecimalPointNumber(col[d])
                       /\ \A r \in filled \ {d} : IntegerLooking(col[r]))
                  => RecordedAs(table_key, i, "float")

\* exported: a column of integer-looking text whose last row holds the one decimal
\* number
C2_Witness ==
    /\ pc = "done"
    /\ \E t \in 1..Len(all_tables) :
          LET col == ColumnOf(all_tables[t][2].headers[2], all_tables[t][2].data)
          IN /\ Len(col) >= 2
             /\ DecimalPointNumber(col[Len(col)])
             /\ \A r \in 1..(Len(col) - 1) : IntegerLooking(col[r])
             /\ RecordedAs(all_tables[t][1], 2, "float")

\* the rules of C9, each with the ones before it excluded
TypeByRule(value) ==
    CASE value.k = "bool" -> "bool"
      [] value.k = "int" -> "int"
      [] value.k = "float" -> "float"
      [] value.k = "str" /\ Lower(value.v) \in {<<"t","r","u","e">>, <<"f","a","l","s","e">>}
            -> "bool"
      [] /\ value.k = "str"
         /\ Lower(value.v) \notin {<<"t","r","u","e">>, <<"f","a","l","s","e">>}
         /\ ParseInt(value.v).ok
            -> "int"
      [] /\ value.k = "str"
         /\ Lower(value.v) \notin {<<"t","r","u","e">>, <<"f","a","l","s","e">>}
         /\ ~ParseInt(value.v).ok
         /\ ParseFloat(value.v).ok
            -> "float"
      [] OTHER -> "string"

\* C9: to_csharp_type gives every value of a parsed table the type of the first
\* rule that matches: bool, int or float for a native value, then bool for the text
\* true or false, int for text int() parses, float for text float() parses, and
\* string for the rest, an absent value and blank text included.
C9_FirstMatchingRule ==
    \A t \in 1..Len(all_tables) :
        \A r \in 1..Len(all_tables[t][2].data) :
            \A c \in 1..Len(all_tables[t][2].data[r]) :
                LET value == all_tables[t][2].data[r][c][2]
                IN /\ to_csharp_type(value) = TypeByRule(value)
                   /\ BlankCell(value) => to_csharp_type(value) = "string"

\* a table holding a native bool, the text True, integer text and float text was parsed
C9_Witness ==
    \E t \in 1..Len(all_tables) :
        LET col == ColumnOf(all_tables[t][2].headers[2], all_tables[t][2].data)
        IN /\ \E r \in 1..Len(col) : col[r].k = "bool" /\ to_csharp_type(col[r]) = "bool"
           /\ \E r \in 1..Len(col) : col[r].k = "str" /\ to_csharp_type(col[r]) = "bool"
           /\ \E r \in 1..Len(col) : col[r].k = "str" /\ to_csharp_type(col[r]) \in {"int", "float"}

\* C10: the type of a column is the type of its first non-empty value in row order,
\* string when it has none; later values do not change it, except that int becomes
\* float when some value of the column is a number with a decimal point.
C10_FirstValueDecides ==
    \A t \in 1..Len(all_tables) :
        LET table_key == all_tables[t][1]
            info == all_tables[t][2]
        IN \A i \in 1..Len(info.headers) :
               LET col == ColumnOf(info.headers[i], info.data)
                   filled == {r \in 1..Len(col) : ~BlankCell(col[r])}
                   first == IF filled = {} THEN "string"
                            ELSE TypeByRule(col[CHOOSE r \in filled : \A q \in filled : r <= q])
                   decimal == \E r \in 1..Len(col) : DecimalPointNumber(col[r])
               IN RecordedAs(table_key, i, IF first = "int" /\ decimal THEN "float" ELSE first)

\* exported: a column whose first row is empty, whose first value is a bool or
\* plain text and stays so with a number after it
C10_Witness ==
    /\ pc = "done"
    /\ \E t \in 1..Len(all_tables) :
          LET col == ColumnOf(all_tables[t][2].headers[2], all_tables[t][2].data)
          IN /\ Len(col) = 3
             /\ BlankCell(col[1])
             /\ TypeByRule(col[2]) \in {"bool", "string"}
             /\ DecimalPointNumber(col[3])
             /\ RecordedAs(all_tables[t][1], 2, TypeByRule(col[2]))

-----------------------------------------------------------------------------
(* The values written: C3, C5 *)

\* the zero-value of a column type
ZeroOf(csharp_type) ==
    CASE csharp_type = "int"   -> VInt(0)
      [] csharp_type = "float" -> VFloat(0, 0)
      [] csharp_type = "bool"  -> VBool(FALSE)
      [] OTHER                 -> VStr(<<>>)

\* the type declared for a header of a table by the record type written for it
DeclaredType(table_key, header) ==
    LET info == DictGet(all_tables, table_key)
        i == CHOOSE j \in 1..Len(info.headers) : info.headers[j] = header
    IN ClassOf(table_key).fields[i].type

\* C3: for every empty cell of an exported row, the document holds the zero-value
\* of the type of the cell's column under the column's field name.
C3_EmptyCellZeroValue ==
    \A t \in 1..Len(all_tables) :
        LET table_key == all_tables[t][1]
            info == all_tables[t][2]
            doc == DictGet(json_files, table_key)
        IN \A r \in 1..Len(info.data) :
               \A c \in 1..Len(info.data[r]) :
                   LET header == info.data[r][c][1]
                       value == info.data[r][c][2]
                   IN BlankCell(value) =>
                          DictGet(doc.items[r], to_pascal_case(header))
                              = ZeroOf(DeclaredType(table_key, header))

\* C5: for every column and every exported row, the value the document holds
\* under the column's field name is of the column's type.
C5_ValueOfColumnType ==
    \A t \in 1..Len(all_tables) :
        LET table_key == all_tables[t][1]
            info == all_tables[t][2]
            doc == DictGet(json_files, table_key)
        IN \A r \in 1..Len(info.data) :
               \A c \in 1..Len(info.data[r]) :
                   LET header == info.data[r][c][1]
                   IN DictGet(doc.items[r], to_pascal_case(header)).k
                          = KindOf(DeclaredType(table_key, header))

-----------------------------------------------------------------------------
(* The table names: C7, C8 *)

\* C7: a table is named by the file stem alone when its workbook has exactly one
\* populated sheet and by <stem>_<sheet name> when it has two or more, and every
\* populated sheet of a processed workbook is exported.
C7_NameByPopulatedSheets ==
    /\ \A i \in 1..Len(written) :
           LET stem == written[i][1]
               n == Cardinality(PopulatedSheets(files[stem]))
           IN written[i][3] = IF n = 1 THEN stem ELSE stem \o <<"_">> \o written[i][2]
    /\ \A stem \in DOMAIN files :
           Processed(stem) /\ files[stem].ok =>
               \A i \in PopulatedSheets(files[stem]) :
                   Exported(stem, files[stem].sheets[i].name)

\* C8: two distinct tables, that is two distinct (workbook, sheet) pairs, are never
\* exported under one table key.
C8_DistinctTableKeys ==
    \A i, j \in 1..Len(written) :
        <<written[i][1], written[i][2]>> # <<written[j][1], written[j][2]>>
            => written[i][3] # written[j][3]

-----------------------------------------------------------------------------
(* Determinism: C4 *)

RECURSIVE PascalHeaders(_)
PascalHeaders(headers) ==
    IF headers = <<>> THEN <<>>
    ELSE <<to_pascal_case(Head(headers))>> \o PascalHeaders(Tail(headers))

\* C4: a second run of main over the same input leaves every document as the first
\* run left it; the keys of every row object are in header order.
C4_RerunSameDocuments ==
    /\ (run = 2 /\ pc = "done") =>
           /\ Len(json_files) = Len(prev_json)
           /\ \A i \in 1..Len(prev_json) :
                  DictGet(json_files, prev_json[i][1]) = prev_json[i][2]
    /\ \A t \in 1..Len(all_tables) :
           LET doc == DictGet(json_files, all_tables[t][1])
           IN \A r \in 1..Len(doc.items) :
                  DictKeys(doc.items[r]) = PascalHeaders(all_tables[t][2].headers)

-----------------------------------------------------------------------------
(* Identifier detection in the generated manager *)

\* the field names of a table's record type, in declaration order
RECURSIVE FieldNames(_)
FieldNames(fields) ==
    IF fields = <<>> THEN <<>> ELSE <<Head(fields).name>> \o FieldNames(Tail(fields))

\* the rows of the document the manager loads for a table, as objects of its type
RowsLoaded(table_name) ==
    FromJsonItems(DictGet(resources, table_name).doc.items, FieldsOf(table_name))

IdTable(table_name) == FieldNames(FieldsOf(table_name)) = <<TextId, TextName>>

NoIdField(table_name) ==
    \A i \in 1..Len(FieldsOf(table_name)) : ~ContainsId(FieldsOf(table_name)[i].name)

\* the last call was the by-id lookup of id in table_name
LookedUp(table_name, id) == ret.call = <<"GetById", table_name, id>>

\* no row after the i-th holds the i-th row's Id
LastOfItsId(rows, i) ==
    \A j \in (i + 1)..Len(rows) : DictGet(rows[j], TextId) # DictGet(rows[i], TextId)

ListFullMapEmpty(table_name) ==
    /\ DictGet(dataList, table_name) = RowsLoaded(table_name)
    /\ DictGet(dataDict, table_name) = <<>>

-----------------------------------------------------------------------------
(* Unreadable and empty workbooks *)

\* main printed no "sheet -> table_key" line for any sheet of this file
NothingExported(stem) == \A i \in 1..Len(written) : written[i][1] # stem

\* C11: a workbook that does not open, or that has no populated sheet, produces no
\* table, and when main is done every populated sheet of every workbook that opens
\* has been exported, whatever other workbooks the directory holds.
C11_ReadableSheetsExported ==
    \A stem \in DOMAIN files :
        /\ (~files[stem].ok \/ PopulatedSheets(files[stem]) = {}) => NothingExported(stem)
        /\ (pc = "done" /\ files[stem].ok) =>
               \A i \in PopulatedSheets(files[stem]) :
                   Exported(stem, files[stem].sheets[i].name)

-----------------------------------------------------------------------------
(* Coercion failures *)

\* the type main coerces the values of a header to
CoercedAs(info, header) == DictGet(FieldTypesMap(info.headers, info.data, <<>>), header)

\* a non-empty text that does not parse as a number of the column's type
Unparseable(csharp_type, value) ==
    /\ value.k = "str"
    /\ Strip(value.v) # <<>>
    /\ \/ csharp_type = "int" /\ ~ParseInt(value.v).ok
       \/ csharp_type = "float" /\ ~ParseFloat(value.v).ok

\* C12: in an int column a non-empty value that does not parse as an integer is
\* written as 0, in a float column a value that does not parse as a number is
\* written as 0.0, and the document still holds one item per row of the table,
\* each with a key for every column.
C12_CoercionFailureDefaults ==
    \A t \in 1..Len(all_tables) :
        LET table_key == all_tables[t][1]
            info == all_tables[t][2]
            doc == DictGet(json_files, table_key)
        IN /\ Len(doc.items) = Len(info.data)
           /\ \A r \in 1..Len(info.data) :
                  \A c \in 1..Len(info.data[r]) :
                      LET header == info.data[r][c][1]
                          value == info.data[r][c][2]
                      IN /\ DictHas(doc.items[r], to_pascal_case(header))
                         /\ Unparseable(CoercedAs(info, header), value) =>
                                DictGet(doc.items[r], to_pascal_case(header))
                                    = ZeroOf(CoercedAs(info, header))

-----------------------------------------------------------------------------
(* The states of the generated manager *)

\* this step is a call of Initialize by the game, and the call returns
InitializeCall == calls' = calls + 1 /\ ret'.call = <<"Initialize">>

\* this step is a call of Initialize or of an accessor
ManagerCall == pc = "running" /\ calls' = calls + 1

\* C13: a call of Initialize made after a call of Initialize has returned leaves
\* the list and the id-indexed map of every table as they were.
C13_SecondInitializeNoOp ==
    [][(initializeReturned /\ InitializeCall) =>
           (dataList' = dataList /\ dataDict' = dataDict)]_vars

\* C14: the manager starts uninitialized, every call of Initialize that returns
\* leaves it initialized, and once initialized it stays so under every call of
\* Initialize and of the accessors.
C14_TwoStateMachine ==
    [][/\ (pc = "done" /\ pc' = "running") => ~isInitialized'
       /\ InitializeCall => isInitialized'
       /\ (ManagerCall /\ isInitialized) => isInitialized']_vars

\* the number of items of the document the manager finds for a table
ItemsOf(table_name) == Len(DictGet(resources, table_name).doc.items)

\* C20: after any calls of Initialize and of the accessors, the list of every table
\* is no longer than the items array of the table's document, whatever the assets
\* of the other tables are.
C20_ListWithinDocument ==
    pc = "running" =>
        \A t \in 1..Len(manager_file) :
            Len(DictGet(dataList, manager_file[t])) <= ItemsOf(manager_file[t])

-----------------------------------------------------------------------------
(* Columns, fields and keys *)

\* the names the record type of a table declares
DeclaredNames(table_key) ==
    {ClassOf(table_key).fields[i].name : i \in 1..Len(ClassOf(table_key).fields)}

\* C15: the record type of every exported table declares one field per column, all
\* of different names, and every row object of its document holds one key per
\* column, whatever the headers are.
C15_OneFieldPerColumn ==
    \A t \in 1..Len(all_tables) :
        LET table_key == all_tables[t][1]
            info == all_tables[t][2]
            doc == DictGet(json_files, table_key)
        IN /\ Len(ClassOf(table_key).fields) = Len(info.headers)
           /\ Cardinality(DeclaredNames(table_key)) = Len(info.headers)
           /\ \A r \in 1..Len(doc.items) : Len(doc.items[r]) = Len(info.headers)

\* the keys of a row object of a document
KeysOf(item) == {item[k][1] : k \in 1..Len(item)}

\* C16: in every exported table the field declared for a column is named as the
\* key of the column in the row objects: every row object holds a key of that
\* name, and holds no key that is not the name of the field of some column.
C16_KeyIsFieldName ==
    \A t \in 1..Len(all_tables) :
        LET table_key == all_tables[t][1]
            info == all_tables[t][2]
            doc == DictGet(json_files, table_key)
        IN \A r \in 1..Len(doc.items) :
               /\ \A i \in 1..Len(info.headers) :
                      ClassOf(table_key).fields[i].name \in KeysOf(doc.items[r])
               /\ KeysOf(doc.items[r]) \subseteq DeclaredNames(table_key)

\* exported: a table of two columns, one with a header that is not its own field
\* name and one with a blank header, with a row object of two keys
C16_Witness ==
    /\ pc = "done"
    /\ \E t \in 1..Len(all_tables) :
          LET info == all_tables[t][2]
              doc == DictGet(json_files, all_tables[t][1])
          IN /\ Len(info.headers) = 2
             /\ \E i \in 1..2 : info.headers[i] # ClassOf(all_tables[t][1]).fields[i].name
             /\ \E i \in 1..2 : info.headers[i] = <<"C","o","l","u","m","n">> \o IntStr(i)
             /\ \E r \in 1..Len(doc.items) : Cardinality(KeysOf(doc.items[r])) = 2

-----------------------------------------------------------------------------
(* The rows of a table *)

\* the sheet of a workbook by its name
SheetOf(stem, sheet_name) ==
    files[stem].sheets[CHOOSE i \in 1..Len(files[stem].sheets) :
                           files[stem].sheets[i].name = sheet_name]

\* the numbers of the data rows (row 2 and below) of a sheet that hold a cell
\* which is neither absent nor blank text, in sheet order
RECURSIVE NonBlankRows(_, _)
NonBlankRows(ws, r) ==
    IF r > Len(ws.rows) THEN <<>>
    ELSE (IF \E c \in 1..Len(ws.rows[r]) : ~BlankCell(ws.rows[r][c]) THEN <<r>> ELSE <<>>)
         \o NonBlankRows(ws, r + 1)

\* C17: the rows of the table of an exported sheet are the data rows of the sheet
\* that hold a non-blank cell, in sheet order, each with the values of its cells,
\* and the document holds as many items.
C17_RowsAreNonBlankRows ==
    \A w \in 1..Len(written) :
        LET ws == SheetOf(written[w][1], written[w][2])
            rows == NonBlankRows(ws, 2)
            info == DictGet(all_tables, written[w][3])
            doc == DictGet(json_files, written[w][3])
        IN /\ Len(info.data) = Len(rows)
           /\ Len(doc.items) = Len(rows)
           /\ \A k \in 1..Len(rows) :
                  k <= Len(info.data) =>
                      \A c \in 1..Len(info.headers) :
                          DictGet(info.data[k], info.headers[c]) = CellData(ws.rows[rows[k]][c])

-----------------------------------------------------------------------------
(* The identifier field *)

\* the one field the claim has the manager select for a table: the first of
\* idFieldNames the record type declares, else the first declared field whose name
\* holds "id", else none (<<>>)
SelectedIdField(table_name) ==
    LET names == FieldNames(FieldsOf(table_name))
        variants == {i \in 1..Len(idFieldNames) :
                        \E j \in 1..Len(names) : names[j] = idFieldNames[i]}
        holding == {j \in 1..Len(names) : ContainsId(names[j])}
    IN IF variants # {} THEN idFieldNames[CHOOSE i \in variants : \A k \in variants : i <= k]
       ELSE IF holding # {} THEN names[CHOOSE j \in holding : \A k \in holding : j <= k]
       ELSE <<>>

\* C18: once the manager is initialized, every entry of a table's id-indexed map is
\* keyed by the value its row holds in the table's identifier field, and a row
\* whose value in that field is 0 is in the list and not in the map.
C18_OneIdentifierField ==
    (pc = "running" /\ isInitialized) =>
        \A t \in 1..Len(manager_file) :
            LET table_name == manager_file[t]
                field == SelectedIdField(table_name)
                dict == DictGet(dataDict, table_name)
                list == DictGet(dataList, table_name)
                rows == RowsLoaded(table_name)
            IN /\ field = <<>> => dict = <<>>
               /\ field # <<>> =>
                      /\ \A e \in 1..Len(dict) :
                             IdOfValue(DictGet(dict[e][2], field)) = dict[e][1]
                      /\ \A r \in 1..Len(rows) :
                             IdOfValue(DictGet(rows[r], field)) = 0 =>
                                 /\ \E l \in 1..Len(list) : list[l] = rows[r]
                                 /\ \A e \in 1..Len(dict) : dict[e][2] # rows[r]

-----------------------------------------------------------------------------
(* The two inferences *)

\* C19: for every column of every exported table, the type the record type
\* declares for the column's field is the type main coerces the column's values to.
C19_DeclaredIsCoerced ==
    \A t \in 1..Len(all_tables) :
        LET table_key == all_tables[t][1]
            info == all_tables[t][2]
        IN \A i \in 1..Len(info.headers) :
               ClassOf(table_key).fields[i].type = CoercedAs(info, info.headers[i])

\* exported: a table whose second column starts with an integer, holds a number
\* with a decimal point further down, and is declared and coerced as float
C19_Witness ==
    /\ pc = "done"
    /\ \E t \in 1..Len(all_tables) :
          LET info == all_tables[t][2]
              col == ColumnOf(info.headers[2], info.data)
          IN /\ Len(col) >= 2
             /\ TypeByRule(col[1]) = "int"
             /\ \E r \in 2..Len(col) : DecimalPointNumber(col[r])
             /\ ClassOf(all_tables[t][1]).fields[2].type = "float"
             /\ CoercedAs(info, info.headers[2]) = "float"

-----------------------------------------------------------------------------
(* The tables after a damaged one *)

\* the asset of the table is the document, present and well-formed
WellFormed(table_name) == DictGet(resources, table_name).kind = "json"

\* C21: once a call of Initialize has returned, the list of every table whose
\* document is present and well-formed holds every row of the document, whatever
\* the assets of the tables loaded before it are.
C21_OtherTablesLoaded ==
    (pc = "running" /\ initializeReturned) =>
        \A t \in 1..Len(manager_file) :
            WellFormed(manager_file[t]) =>
                \A r \in 1..Len(RowsLoaded(manager_file[t])) :
                    \E l \in 1..Len(DictGet(dataList, manager_file[t])) :
                        DictGet(dataList, manager_file[t])[l] = RowsLoaded(manager_file[t])[r]

-----------------------------------------------------------------------------
(* The by-id lookup *)

\* the identifier value of a row: its value in the identifier field of its table,
\* 0 when the table has no such field
IdentifierOf(table_name, row) ==
    IF SelectedIdField(table_name) = <<>> THEN 0
    ELSE IdOfValue(DictGet(row, SelectedIdField(table_name)))

\* C22: once the manager is initialized, the by-id lookup of k returns the last row
\* of the document whose identifier value is k, returns null when no row has the
\* identifier k or k is 0, and returns no row that is not in the table's list.
C22_LookupReturnsLastRow ==
    (pc = "running" /\ isInitialized) =>
        \A t \in 1..Len(manager_file) : \A k \in IdArgs :
            LookedUp(manager_file[t], k) =>
                LET rows == RowsLoaded(manager_file[t])
                    list == DictGet(dataList, manager_file[t])
                    matching == {r \in 1..Len(rows) : IdentifierOf(manager_file[t], rows[r]) = k}
                IN /\ (k # 0 /\ matching # {}) =>
                          ret.value = rows[CHOOSE r \in matching : \A q \in matching : q <= r]
                   /\ (k = 0 \/ matching = {}) => ret.value = Null
                   /\ ret.value # Null => \E l \in 1..Len(list) : list[l] = ret.value

=============================================================================
